---- MODULE Spec2Model ----
(***************************************************************************)
(* A model of smaps-container-exporter: the smaps report parser            *)
(* (smaps.go), the Kubernetes process selector (kubernetes.go) and the     *)
(* poll loop that drives them (main.go).                                   *)
(*                                                                         *)
(* Text is modelled as sequences of characters (one-element strings, or    *)
(* longer tokens standing for a run of ordinary characters).  A line of a  *)
(* report is a record of the pieces the two regular expressions look at.   *)
(***************************************************************************)
EXTENDS Integers, Sequences, FiniteSets, TLC

VARIABLES
    \* ---- ParseSmaps (smaps.go) ----
    report,            \* the lines scanner.Scan() has delivered so far
    aggregatedSmaps,   \* map[string]*SmapsMapping, keyed by path
    mapping,           \* the current *SmapsMapping: a key of aggregatedSmaps, or NilMapping
    pstate,            \* "scanning", "returned", "error" or "panic"
    result,            \* what ParseSmaps returned
    \* ---- the world KubernetesFinder reads (kubernetes.go) ----
    podSandboxes,      \* the sandboxes the CRI runtime lists, with their labels
    criDown,           \* whether ListPodSandbox fails
    containers,        \* the containers the CRI runtime lists
    lcFail,            \* the pod UIDs for which ListContainers fails
    tasks,             \* containerd: container id -> its task (or the lookup's failure)
    procReadable,      \* whether os.ReadDir(procPath) succeeds
    procEntries,       \* the entries of procPath
    \* ---- a call of GetHostPIDs ----
    call,              \* the arguments and the result of the last call
    \* ---- the poll loop (main.go) ----
    selector,          \* the four parts of the -filter flag
    smapsFiles,        \* pid -> the file procPath/<pid>/smaps
    registry,          \* the gauges: (comm, path) -> the value of each metric
    pollState          \* "waiting" for the next tick, "collecting", or "crashed"

parseVars == <<report, aggregatedSmaps, mapping, pstate, result>>

worldVars == <<podSandboxes, criDown, containers, lcFail, tasks, procReadable,
               procEntries>>

pollVars == <<selector, smapsFiles, registry, pollState>>

vars == <<parseVars, worldVars, call, pollVars>>

-----------------------------------------------------------------------------
(* Bounds of the model. *)

MaxLines == 3
MaxSandboxes == 2

-----------------------------------------------------------------------------
(* Characters and strings. *)

SP == " "
TAB == "\t"
VT == "\\v"
LF == "\n"

\* The class \s of Go's regexp package: [\t\n\f\r ].
ReSpace == {SP, TAB, LF}

\* unicode.IsSpace, which strings.TrimSpace uses: \s and also \v, U+0085, U+00A0.
IsSpace == {SP, TAB, LF, VT}

RECURSIVE TrimLeft(_, _)
TrimLeft(s, cutset) ==
    IF s # <<>> /\ Head(s) \in cutset THEN TrimLeft(Tail(s), cutset) ELSE s

RECURSIVE TrimRight(_, _)
TrimRight(s, cutset) ==
    IF s # <<>> /\ s[Len(s)] \in cutset
    THEN TrimRight(SubSeq(s, 1, Len(s) - 1), cutset)
    ELSE s

TrimSpace(s) == TrimRight(TrimLeft(s, IsSpace), IsSpace)

-----------------------------------------------------------------------------
(* SmapsMapping and the report lines. *)

\* The byte fields of SmapsMapping.
ByteFields ==
    {"SizeBytes", "RssBytes", "PssBytes", "PssDirtyBytes", "SharedCleanBytes",
     "SharedDirtyBytes", "PrivateCleanBytes", "PrivateDirtyBytes",
     "ReferencedBytes", "AnonymousBytes", "LazyFreeBytes", "AnonHugePagesBytes",
     "ShmemPmdMappedBytes", "SharedHugetlbBytes", "PrivateHugetlbBytes",
     "SwapBytes", "SwapPssBytes", "KernelPageSizeBytes", "MMUPageSizeBytes",
     "LockedBytes"}

\* The switch of ParseSmaps: the field a key is added to ("" for a key with no case).
KeyField(key) ==
    CASE key = "Size" -> "SizeBytes"
      [] key = "KernelPageSize" -> "KernelPageSizeBytes"
      [] key = "MMUPageSize" -> "MMUPageSizeBytes"
      [] key = "Rss" -> "RssBytes"
      [] key = "Pss" -> "PssBytes"
      [] key = "Pss_Dirty" -> "PssDirtyBytes"
      [] key = "Shared_Clean" -> "SharedCleanBytes"
      [] key = "Shared_Dirty" -> "SharedDirtyBytes"
      [] key = "Private_Clean" -> "PrivateCleanBytes"
      [] key = "Private_Dirty" -> "PrivateDirtyBytes"
      [] key = "Referenced" -> "ReferencedBytes"
      [] key = "Anonymous" -> "AnonymousBytes"
      [] key = "LazyFree" -> "LazyFreeBytes"
      [] key = "AnonHugePages" -> "AnonHugePagesBytes"
      [] key = "ShmemPmdMapped" -> "ShmemPmdMappedBytes"
      [] key = "Shared_Hugetlb" -> "SharedHugetlbBytes"
      [] key = "Private_Hugetlb" -> "PrivateHugetlbBytes"
      [] key = "Swap" -> "SwapBytes"
      [] key = "SwapPss" -> "SwapPssBytes"
      [] key = "Locked" -> "LockedBytes"
      [] OTHER -> ""

\* A SmapsMapping as ParseSmaps creates it: the header fields, all byte fields zero.
NewSmapsMapping(addr, perms, offset, dev, inode, path) ==
    [AddrRange |-> addr, Perms |-> perms, Offset |-> offset, Dev |-> dev,
     Inode |-> inode, Path |-> path, bytes |-> [f \in ByteFields |-> 0]]

\* A line "<addr> <perms> <offset> <dev> <inode><tail>"; tail is everything after
\* the inode's digits.
Hdr(addr, perms, tail) ==
    [kind |-> "hdr", addr |-> addr, perms |-> perms, offset |-> "00000000",
     dev |-> "00:00", inode |-> "0", tail |-> tail]

\* A line "<key>:  <val> <unit>"; val is the text between the blanks after the
\* colon and the single blank before the unit.
Kv(key, val, unit) == [kind |-> "kv", key |-> key, val |-> val, unit |-> unit]

\* The value texts: a decimal number n that fits int64, a run of digits beyond
\* int64 (such as 99999999999999999999), and text that is not all digits.
Dec(n) == [form |-> "dec", n |-> n]
Huge == [form |-> "huge", n |-> 0]
NonDec == [form |-> "nondec", n |-> 0]

BlankLine == [kind |-> "blank"]
TextLine == [kind |-> "text"]

Anon == <<"[anon]">>

-----------------------------------------------------------------------------
(* The regular expressions. *)

PermChars == {"r", "w", "x", "p", "s", "-"}

NoMatch == [ok |-> FALSE]

\* headerRe: ^(hex-hex) ([rwxps-]{4}) (hex) (hex:) (\d+)(?:\s+(.*))?$
\* After the inode either the line ends (group 6 is empty), or a greedy run of
\* \s follows and group 6 is the rest of the line.
headerRe(line) ==
    IF line.kind # "hdr" THEN NoMatch
    ELSE IF ~(Len(line.perms) = 4 /\ \A i \in 1..4 : line.perms[i] \in PermChars)
    THEN NoMatch
    ELSE IF line.tail = <<>>
    THEN [ok |-> TRUE, m1 |-> line.addr, m2 |-> line.perms, m3 |-> line.offset,
          m4 |-> line.dev, m5 |-> line.inode, m6 |-> <<>>]
    ELSE IF Head(line.tail) \in ReSpace
    THEN [ok |-> TRUE, m1 |-> line.addr, m2 |-> line.perms, m3 |-> line.offset,
          m4 |-> line.dev, m5 |-> line.inode, m6 |-> TrimLeft(line.tail, ReSpace)]
    ELSE NoMatch

\* kvRe: ^([A-Za-z_]+):\s+(\d+) kB   (no anchor at the end: the unit need only
\* begin with kB).
kvRe(line) ==
    IF line.kind # "kv" THEN NoMatch
    ELSE IF line.val.form = "nondec" THEN NoMatch
    ELSE IF Len(line.unit) >= 2 /\ line.unit[1] = "k" /\ line.unit[2] = "B"
    THEN [ok |-> TRUE, m1 |-> line.key, m2 |-> line.val]
    ELSE NoMatch

-----------------------------------------------------------------------------
(* Numbers. *)

KiB == 1024

\* strconv.ParseInt(s, 10, 64) on a run of digits: the value, or on a range
\* error the largest int64 together with the error (which ParseSmaps drops).
ParseInt(digits) ==
    IF digits.form = "dec"
    THEN [val |-> digits.n, max |-> FALSE, err |-> FALSE]
    ELSE [val |-> 0, max |-> TRUE, err |-> TRUE]

\* val * 1024 in int64.  (2^63 - 1) * 1024 = 2^73 - 1024, which is -1024 modulo
\* 2^64; the small values of the model do not wrap.
ValBytes(v) == IF v.max THEN 0 - KiB ELSE v.val * KiB

-----------------------------------------------------------------------------
(* ParseSmaps, one line at a time. *)

NilMapping == <<"nil">>

\* The state of the scan loop: the map, the current mapping and whether the
\* loop has panicked.
ScanStart == [agg |-> <<>>, mapping |-> NilMapping, panic |-> FALSE]

\* The path of the SmapsMapping a matched header creates.
HeaderPath(m) ==
    LET path == IF m.m6 # <<>> THEN m.m6 ELSE Anon
    IN TrimSpace(path)

\* The header branch with the current mapping set by the first matched header
\* only: later headers add their record but do not select it.
ScanHeaderKeepsFirst(s, m) ==
    LET perms == IF m.m2 # <<>> THEN m.m2 ELSE <<"-", "-", "-", "-">>
        tmp == NewSmapsMapping(m.m1, perms, m.m3, m.m4, m.m5, HeaderPath(m))
        key == tmp.Path
        cur == IF s.mapping = NilMapping THEN key ELSE s.mapping
    IN IF key \in DOMAIN s.agg
       THEN [s EXCEPT !.mapping = cur]
       ELSE [s EXCEPT !.agg = (key :> tmp) @@ s.agg, !.mapping = cur]

\* The header branch of the loop.
ScanHeader(s, m) ==
    LET perms == IF m.m2 # <<>> THEN m.m2 ELSE <<"-", "-", "-", "-">>
        tmp == NewSmapsMapping(m.m1, perms, m.m3, m.m4, m.m5, HeaderPath(m))
        key == tmp.Path
    IN IF key \in DOMAIN s.agg
       THEN [s EXCEPT !.mapping = key]
       ELSE [s EXCEPT !.agg = (key :> tmp) @@ s.agg, !.mapping = key]

\* The key-value branch of the loop.  A case of the switch dereferences
\* mapping, which is nil until a header has matched.
ScanKv(s, m) ==
    LET field == KeyField(m.m1)
        val == ParseInt(m.m2)
        valBytes == ValBytes(val)
    IN IF field = "" THEN s
       ELSE IF s.mapping = NilMapping THEN [s EXCEPT !.panic = TRUE]
       ELSE [s EXCEPT !.agg[s.mapping].bytes[field] = @ + valBytes]

\* The body of the for loop for one line.
ScanLine(s, line) ==
    IF line.kind = "blank" THEN s
    ELSE IF headerRe(line).ok THEN ScanHeader(s, headerRe(line))
    ELSE IF kvRe(line).ok THEN ScanKv(s, kvRe(line))
    ELSE s

\* The loop over the lines of a report; a panic ends it.
RECURSIVE ScanFrom(_, _)
ScanFrom(s, lines) ==
    IF lines = <<>> \/ s.panic THEN s
    ELSE ScanFrom(ScanLine(s, Head(lines)), Tail(lines))

\* The slice ParseSmaps builds from the map (in no particular order).
MapToSlice(agg) == {agg[k] : k \in DOMAIN agg}

\* ParseSmaps on a reader that delivers lines and then ends, with a read error
\* (readErr) or without.
ParseSmaps(lines, readErr) ==
    LET s == ScanFrom(ScanStart, lines)
    IN IF s.panic THEN [outcome |-> "panic", list |-> {}]
       ELSE IF readErr THEN [outcome |-> "error", list |-> {}]
       ELSE [outcome |-> "returned", list |-> MapToSlice(s.agg)]

-----------------------------------------------------------------------------
(* The reports of the model. *)

Addr1 == "00400000-00452000"
Addr2 == "7f0000-7f1000"
RWP == <<"r", "w", "-", "p">>
RXP == <<"r", "-", "x", "p">>
BadPerms == <<"r", "w", "x", "p", "p">>
KB == <<"k", "B">>

HeaderLines ==
    {Hdr(Addr1, RWP, <<SP, "/a">>),
     Hdr(Addr2, RXP, <<SP, SP, "/a", SP>>),
     Hdr(Addr1, RWP, <<SP, "/b">>),
     Hdr(Addr1, RWP, <<>>),
     Hdr(Addr2, RWP, <<SP, SP>>),
     Hdr(Addr2, RWP, <<SP, VT>>),
     Hdr(Addr1, BadPerms, <<SP, "/b">>)}

KvLines ==
    {Kv("Rss", Dec(1), KB),
     Kv("Rss", Dec(2), KB),
     Kv("Pss_Dirty", Dec(1), KB),
     Kv("FilePmdMapped", Dec(1), KB),
     Kv("Rss", Dec(1), <<"k", "B", "p", "s">>),
     Kv("Rss", Dec(1), <<"M", "B">>),
     Kv("Rss", Huge, KB),
     Kv("Rss", NonDec, KB)}

Lines == HeaderLines \cup KvLines \cup {BlankLine, TextLine}

-----------------------------------------------------------------------------
(* KubernetesFinder: the world it reads. *)

Wildcard == "*"

\* A pod sandbox as ListPodSandbox returns it: the three labels GetHostPIDs reads.
Sandbox(namespace, name, uid) == [namespace |-> namespace, name |-> name, uid |-> uid]

\* A container as ListContainers returns it.
Container(id, podUID, name, state) ==
    [Id |-> id, podUID |-> podUID, name |-> name, State |-> state]

\* The name of an entry of procPath: decimal digits (num, with value n) or not.
PidName(n) == [num |-> TRUE, n |-> n, text |-> ""]
OtherName(text) == [num |-> FALSE, n |-> 0, text |-> text]

\* The target of <pid>/ns/pid: unreadable, or some text that is or is not of
\* the form pid:[<ino>].
NsLink(ino) == [readable |-> TRUE, wellformed |-> TRUE, ino |-> ino]
NsLinkMalformed == [readable |-> TRUE, wellformed |-> FALSE, ino |-> 0]
NsLinkUnreadable == [readable |-> FALSE, wellformed |-> FALSE, ino |-> 0]

\* The contents of <pid>/comm.
Comm(data) == [readable |-> TRUE, data |-> data]
CommUnreadable == [readable |-> FALSE, data |-> <<>>]

ProcEntry(name, isDir, link, comm) ==
    [name |-> name, isDir |-> isDir, link |-> link, comm |-> comm]

\* strconv.Atoi on an entry name.
Atoi(name) == IF name.num THEN [val |-> name.n, err |-> FALSE]
              ELSE [val |-> 0, err |-> TRUE]

\* fmt.Sprintf("%d", n) as a name under procPath.
Itoa(n) == PidName(n)

\* The entry of procPath with a given name (the path procPath/<name>).
Lookup(name) ==
    LET hits == {i \in 1..Len(procEntries) : procEntries[i].name = name}
    IN IF hits = {} THEN [found |-> FALSE]
       ELSE [found |-> TRUE, entry |-> procEntries[CHOOSE i \in hits : TRUE]]

\* os.Readlink(procPath/<pid>/ns/pid).
Readlink(pid) ==
    LET e == Lookup(pid)
    IN IF e.found /\ e.entry.isDir /\ e.entry.link.readable
       THEN [err |-> FALSE, link |-> e.entry.link]
       ELSE [err |-> TRUE, link |-> NsLinkUnreadable]

\* fmt.Sscanf(link, "pid:[%d]", &nsid).
Sscanf(link) ==
    IF link.wellformed THEN [n |-> 1, err |-> FALSE, nsid |-> link.ino]
    ELSE [n |-> 0, err |-> TRUE, nsid |-> 0]

\* os.ReadFile(procPath/<pid>/comm).
ReadFile(pid) ==
    LET e == Lookup(pid)
    IN IF e.found /\ e.entry.isDir /\ e.entry.comm.readable
       THEN [err |-> FALSE, data |-> e.entry.comm.data]
       ELSE [err |-> TRUE, data |-> <<>>]

\* os.ReadDir(procPath).
ReadDir ==
    IF procReadable THEN [err |-> FALSE, entries |-> procEntries]
    ELSE [err |-> TRUE, entries |-> <<>>]

\* criClient.ListPodSandbox with an empty request.
ListPodSandbox ==
    IF criDown THEN [err |-> TRUE, Items |-> <<>>]
    ELSE [err |-> FALSE, Items |-> podSandboxes]

\* criClient.ListContainers with a label selector: the pod UID and, when given,
\* the container name (NoName for a selector without it).
NoName == ""

ListContainers(podUID, name) ==
    LET Selected(c) == c.podUID = podUID /\ (name = NoName \/ c.name = name)
    IN IF podUID \in lcFail THEN [err |-> TRUE, Containers |-> <<>>]
       ELSE [err |-> FALSE, Containers |-> SelectSeq(containers, Selected)]

-----------------------------------------------------------------------------
(* KubernetesFinder: its methods. *)

\* commMatches.
commMatches(pid, comm) ==
    LET f == ReadFile(pid)
    IN IF f.err THEN FALSE ELSE TrimSpace(f.data) = comm

\* pidNamespaceMatches without the comparison of the inode: any readable,
\* well-formed link matches.
pidNamespaceMatchesAnyNs(pid, ns) ==
    LET l == Readlink(pid)
        sc == Sscanf(l.link)
    IN IF l.err THEN FALSE
       ELSE IF sc.n = 1 /\ ~sc.err THEN TRUE
       ELSE FALSE

\* pidNamespaceMatches; ns is the decimal text of an inode, held as the number.
pidNamespaceMatches(pid, ns) ==
    LET l == Readlink(pid)
        sc == Sscanf(l.link)
    IN IF l.err THEN FALSE
       ELSE IF sc.n = 1 /\ ~sc.err THEN sc.nsid = ns
       ELSE FALSE

\* The loop of findPIDsInPIDNamespace over the entries.
RECURSIVE ScanEntries(_, _, _)
ScanEntries(entries, ns, comm) ==
    IF entries = <<>> THEN <<>>
    ELSE LET entry == Head(entries)
             pid == entry.name
             rest == ScanEntries(Tail(entries), ns, comm)
         IN IF Atoi(pid).err THEN rest
            ELSE IF ~entry.isDir THEN rest
            ELSE IF ~pidNamespaceMatches(pid, ns) THEN rest
            ELSE IF comm # <<Wildcard>> /\ ~commMatches(pid, comm) THEN rest
            ELSE <<Atoi(pid).val>> \o rest

\* findPIDsInPIDNamespace.
findPIDsInPIDNamespace(ns, comm) ==
    LET d == ReadDir
    IN IF d.err THEN <<>> ELSE ScanEntries(d.entries, ns, comm)

\* getPIDNamespace.
getPIDNamespace(pid) ==
    LET l == Readlink(pid)
        sc == Sscanf(l.link)
    IN IF l.err THEN [err |-> TRUE, ns |-> 0]
       ELSE IF sc.n = 1 /\ ~sc.err THEN [err |-> FALSE, ns |-> sc.nsid]
       ELSE [err |-> TRUE, ns |-> 0]

\* getInitPIDFromContainerd.
getInitPIDFromContainerd(containerID) ==
    IF tasks[containerID].err THEN [err |-> TRUE, pid |-> Itoa(0)]
    ELSE [err |-> FALSE, pid |-> Itoa(tasks[containerID].pid)]

\* getContainersForPod without the test for the wildcard: the container field
\* always becomes a label of the selector.
getContainersForPodLiteral(podUID, container) ==
    ListContainers(podUID, container)

\* getContainersForPod.
getContainersForPod(podUID, container) ==
    IF container # Wildcard THEN ListContainers(podUID, container)
    ELSE ListContainers(podUID, NoName)

\* The first loop of GetHostPIDs: the pod UIDs of the matching sandboxes.
RECURSIVE MatchingPodUIDs(_, _, _)
MatchingPodUIDs(items, namespace, pod) ==
    IF items = <<>> THEN <<>>
    ELSE LET sb == Head(items)
             rest == MatchingPodUIDs(Tail(items), namespace, pod)
         IN IF (namespace = Wildcard \/ sb.namespace = namespace)
               /\ (pod = Wildcard \/ sb.name = pod)
            THEN <<sb.uid>> \o rest
            ELSE rest

\* The inner loop without the test of the state: the ids of all containers.
RunningIdsAnyState(cs) ==
    [i \in 1..Len(cs) |-> cs[i].Id]

\* The inner loop of the second loop: the ids of the running containers.
RunningIds(cs) ==
    LET Running(c) == c.State = "CONTAINER_RUNNING"
        run == SelectSeq(cs, Running)
    IN [i \in 1..Len(run) |-> run[i].Id]

\* The second loop of GetHostPIDs: the ids of the running containers of the pods.
RECURSIVE MatchingContainerUIDs(_, _)
MatchingContainerUIDs(podUIDs, container) ==
    IF podUIDs = <<>> THEN <<>>
    ELSE LET r == getContainersForPod(Head(podUIDs), container)
             rest == MatchingContainerUIDs(Tail(podUIDs), container)
         IN IF r.err THEN rest ELSE RunningIds(r.Containers) \o rest

\* The third loop leaving at the first container that fails instead of
\* continuing with the next.
RECURSIVE CollectPIDsAbort(_, _)
CollectPIDsAbort(containerUIDs, comm) ==
    IF containerUIDs = <<>> THEN <<>>
    ELSE LET init == getInitPIDFromContainerd(Head(containerUIDs))
             pidNS == getPIDNamespace(init.pid)
         IN IF init.err THEN <<>>
            ELSE IF pidNS.err THEN <<>>
            ELSE findPIDsInPIDNamespace(pidNS.ns, comm)
                    \o CollectPIDsAbort(Tail(containerUIDs), comm)

\* The third loop of GetHostPIDs: the PIDs in the PID namespace of each container.
RECURSIVE CollectPIDs(_, _)
CollectPIDs(containerUIDs, comm) ==
    IF containerUIDs = <<>> THEN <<>>
    ELSE LET init == getInitPIDFromContainerd(Head(containerUIDs))
             pidNS == getPIDNamespace(init.pid)
             rest == CollectPIDs(Tail(containerUIDs), comm)
         IN IF init.err THEN rest
            ELSE IF pidNS.err THEN rest
            ELSE findPIDsInPIDNamespace(pidNS.ns, comm) \o rest

\* The containers for which the third loop of GetHostPIDs reaches the scan of
\* the PID namespace (the call of findPIDsInPIDNamespace).
RECURSIVE ScannedContainers(_)
ScannedContainers(containerUIDs) ==
    IF containerUIDs = <<>> THEN {}
    ELSE LET init == getInitPIDFromContainerd(Head(containerUIDs))
             pidNS == getPIDNamespace(init.pid)
             rest == ScannedContainers(Tail(containerUIDs))
         IN IF init.err THEN rest
            ELSE IF pidNS.err THEN rest
            ELSE {Head(containerUIDs)} \cup rest

NoError == ""

\* GetHostPIDs without the test of the final list: an empty list is returned
\* with a nil error.
GetHostPIDsNoFinalCheck(namespace, pod, container, comm) ==
    LET podResp == ListPodSandbox
        podUIDs == MatchingPodUIDs(podResp.Items, namespace, pod)
        containerUIDs == MatchingContainerUIDs(podUIDs, container)
        allPIDs == CollectPIDs(containerUIDs, comm)
    IN IF podResp.err THEN [pids |-> <<>>, err |-> "ListPodSandbox failed"]
       ELSE IF Len(podUIDs) = 0 THEN [pids |-> <<>>, err |-> "pod not found"]
       ELSE IF Len(containerUIDs) = 0
       THEN [pids |-> <<>>, err |-> "no running containers"]
       ELSE [pids |-> allPIDs, err |-> NoError]

\* GetHostPIDs.
GetHostPIDs(namespace, pod, container, comm) ==
    LET podResp == ListPodSandbox
        podUIDs == MatchingPodUIDs(podResp.Items, namespace, pod)
        containerUIDs == MatchingContainerUIDs(podUIDs, container)
        allPIDs == CollectPIDs(containerUIDs, comm)
    IN IF podResp.err THEN [pids |-> <<>>, err |-> "ListPodSandbox failed"]
       ELSE IF Len(podUIDs) = 0 THEN [pids |-> <<>>, err |-> "pod not found"]
       ELSE IF Len(containerUIDs) = 0
       THEN [pids |-> <<>>, err |-> "no running containers"]
       ELSE IF Len(allPIDs) = 0 THEN [pids |-> <<>>, err |-> "no PIDs found"]
       ELSE [pids |-> allPIDs, err |-> NoError]

-----------------------------------------------------------------------------
(* The worlds of the model. *)

SandboxPool ==
    {Sandbox("default", "web-1", "u1"),
     Sandbox("default", "db-1", "u2"),
     Sandbox("kube-system", "web-1", "u3")}

\* Lists of at most MaxSandboxes sandboxes; a sandbox may be listed twice (a
\* pod whose sandbox was recreated has two sandboxes with the same labels).
SandboxLists ==
    UNION {[1..n -> SandboxPool] : n \in 0..MaxSandboxes}

ContainerIds == {"c1", "c2", "c3", "c4"}

ContainerList(c2state) ==
    <<Container("c1", "u1", "web", "CONTAINER_RUNNING"),
      Container("c2", "u1", "sidecar", c2state),
      Container("c3", "u2", "web", "CONTAINER_RUNNING"),
      Container("c4", "u3", "web", "CONTAINER_RUNNING")>>

InitPid ==
    [c \in ContainerIds |->
        CASE c = "c1" -> 10 [] c = "c2" -> 20 [] c = "c3" -> 30 [] c = "c4" -> 50]

TaskTable(failing) ==
    [c \in ContainerIds |-> [err |-> c \in failing, pid |-> InitPid[c]]]

Nginx == Comm(<<"nginx", LF>>)

ProcList(link20, link30) ==
    <<ProcEntry(PidName(1), TRUE, NsLink(100), Nginx),
      ProcEntry(PidName(10), TRUE, NsLink(101), Nginx),
      ProcEntry(PidName(11), TRUE, NsLink(101), Comm(<<"sh", LF>>)),
      ProcEntry(PidName(20), TRUE, link20, Nginx),
      ProcEntry(PidName(30), TRUE, link30, Nginx),
      ProcEntry(PidName(31), TRUE, NsLink(103), CommUnreadable),
      ProcEntry(PidName(32), TRUE, NsLinkUnreadable, Nginx),
      ProcEntry(PidName(40), FALSE, NsLink(101), Nginx),
      ProcEntry(PidName(50), TRUE, NsLink(104), Nginx),
      ProcEntry(OtherName("self"), TRUE, NsLink(101), Nginx)>>

WorldInit ==
    /\ podSandboxes \in SandboxLists
    /\ criDown \in BOOLEAN
    /\ containers \in {ContainerList(st) : st \in {"CONTAINER_RUNNING", "CONTAINER_EXITED"}}
    /\ lcFail \in {{}, {"u2"}}
    /\ tasks \in {TaskTable(f) : f \in {{}, {"c1"}, {"c1", "c2", "c3"}}}
    /\ procReadable \in BOOLEAN
    /\ procEntries \in {ProcList(l20, l30) :
                          l20 \in {NsLink(101), NsLink(102)},
                          l30 \in {NsLink(103), NsLinkMalformed, NsLinkUnreadable}}

\* The world in which the parser alone is studied.
WorldFixed ==
    /\ podSandboxes = <<Sandbox("default", "web-1", "u1")>>
    /\ criDown = FALSE
    /\ containers = ContainerList("CONTAINER_RUNNING")
    /\ lcFail = {}
    /\ tasks = TaskTable({})
    /\ procReadable = TRUE
    /\ procEntries = ProcList(NsLink(102), NsLink(103))

NoCall ==
    [done |-> FALSE, namespace |-> Wildcard, pod |-> Wildcard,
     container |-> Wildcard, comm |-> <<Wildcard>>, pids |-> <<>>, err |-> NoError]

\* A file procPath/<pid>/smaps: whether os.Open succeeds, the lines a reader
\* of it delivers, and whether reading then fails.
SmapsFile(openable, lines, readErr) ==
    [openable |-> openable, lines |-> lines, readErr |-> readErr]

SmapsPids == {10, 11, 20}

GoodFile(kb) == SmapsFile(TRUE, <<Hdr(Addr1, RWP, <<SP, "/a">>), Kv("Rss", Dec(kb), KB)>>, FALSE)

FilePool ==
    {GoodFile(1),
     GoodFile(2),
     SmapsFile(FALSE, <<>>, FALSE),
     SmapsFile(TRUE, <<Hdr(Addr1, RWP, <<SP, "/a">>)>>, TRUE),
     SmapsFile(TRUE, <<Kv("Rss", Dec(1), KB), Hdr(Addr1, RWP, <<SP, "/a">>)>>, FALSE)}

PollIdle ==
    /\ selector = [namespace |-> "default", pod |-> Wildcard,
                   container |-> Wildcard, comm |-> <<Wildcard>>]
    /\ smapsFiles = [pid \in SmapsPids |-> GoodFile(1)]
    /\ registry = <<>>
    /\ pollState = "idle"

ParseIdle ==
    /\ report = <<>>
    /\ aggregatedSmaps = <<>>
    /\ mapping = NilMapping
    /\ pstate = "idle"
    /\ result = {}

-----------------------------------------------------------------------------
(* GetHostPIDs as an operation on the world. *)

FinderInit == WorldInit /\ ParseIdle /\ PollIdle /\ call = NoCall

GetHostPIDsCall ==
    /\ ~call.done
    /\ \E namespace \in {Wildcard, "default"}, pod \in {Wildcard, "web-1"},
          container \in {Wildcard, "web"}, comm \in {<<Wildcard>>, <<"nginx">>} :
        LET r == GetHostPIDs(namespace, pod, container, comm)
        IN call' = [done |-> TRUE, namespace |-> namespace, pod |-> pod,
                    container |-> container, comm |-> comm,
                    pids |-> r.pids, err |-> r.err]
    /\ UNCHANGED <<parseVars, worldVars, pollVars>>

FinderNext == GetHostPIDsCall

SpecFinder == FinderInit /\ [][FinderNext]_vars

-----------------------------------------------------------------------------
(* The poll loop. *)

\* findComm.
findComm(pid) ==
    LET f == ReadFile(Itoa(pid))
    IN IF f.err THEN [err |-> TRUE, comm |-> <<>>]
       ELSE [err |-> FALSE, comm |-> TrimSpace(f.data)]

\* os.Open(procPath/<pid>/smaps): the file exists while the process does.
Open(pid) ==
    IF pid \in DOMAIN smapsFiles /\ Lookup(Itoa(pid)).found /\ smapsFiles[pid].openable
    THEN [err |-> FALSE, f |-> smapsFiles[pid]]
    ELSE [err |-> TRUE, f |-> SmapsFile(FALSE, <<>>, FALSE)]

\* setMetrics adding to the gauges instead of setting them.
setMetricsAdd(reg, comm, m) ==
    LET k == <<comm, m.Path>>
    IN IF k \in DOMAIN reg
       THEN (k :> [f \in ByteFields |-> reg[k][f] + m.bytes[f]]) @@ reg
       ELSE (k :> m.bytes) @@ reg

\* setMetrics: every gauge of the label pair (comm, m.Path) is set to the
\* field of m it reports.
setMetrics(reg, comm, m) == (<<comm, m.Path>> :> m.bytes) @@ reg

\* The loop of collectAndSetMetrics over the mappings (their order is the
\* map's; the mappings have distinct paths).
RECURSIVE SetAll(_, _, _)
SetAll(reg, comm, ms) ==
    IF ms = {} THEN reg
    ELSE LET m == CHOOSE x \in ms : TRUE
         IN SetAll(setMetrics(reg, comm, m), comm, ms \ {m})

\* collectAndSetMetrics: the registry afterwards, whether an error was
\* returned, and whether ParseSmaps panicked.
collectAndSetMetrics(reg, pid) ==
    LET c == findComm(pid)
        o == Open(pid)
        parsed == ParseSmaps(o.f.lines, o.f.readErr)
    IN IF c.err THEN [registry |-> reg, err |-> TRUE, panic |-> FALSE]
       ELSE IF o.err THEN [registry |-> reg, err |-> TRUE, panic |-> FALSE]
       ELSE IF parsed.outcome = "panic"
       THEN [registry |-> reg, err |-> FALSE, panic |-> TRUE]
       ELSE IF parsed.outcome = "error"
       THEN [registry |-> reg, err |-> TRUE, panic |-> FALSE]
       ELSE [registry |-> SetAll(reg, c.comm, parsed.list), err |-> FALSE,
             panic |-> FALSE]

\* The loop of pollMetrics over the PIDs of one cycle; an error is logged and
\* the loop goes on, a panic ends the program.
RECURSIVE CollectCycle(_, _)
CollectCycle(reg, pids) ==
    IF pids = <<>> THEN [registry |-> reg, panic |-> FALSE]
    ELSE LET r == collectAndSetMetrics(reg, Head(pids))
         IN IF r.panic THEN [registry |-> r.registry, panic |-> TRUE]
            ELSE CollectCycle(r.registry, Tail(pids))

PollInit ==
    /\ WorldFixed
    /\ ParseIdle
    /\ call = NoCall
    /\ selector \in {[namespace |-> "default", pod |-> Wildcard,
                      container |-> Wildcard, comm |-> <<Wildcard>>],
                     [namespace |-> "default", pod |-> "web-1",
                      container |-> "web", comm |-> <<"nginx">>]}
    /\ smapsFiles = [pid \in SmapsPids |-> GoodFile(1)]
    /\ registry = <<>>
    /\ pollState = "waiting"

\* The first half of an iteration of the loop of pollMetrics: the tick and the
\* resolution.  On an error or an empty list the iteration ends (continue).
PollTick ==
    /\ pollState = "waiting"
    /\ LET r == GetHostPIDs(selector.namespace, selector.pod, selector.container,
                            selector.comm)
       IN /\ call' = [done |-> TRUE, namespace |-> selector.namespace,
                      pod |-> selector.pod, container |-> selector.container,
                      comm |-> selector.comm, pids |-> r.pids, err |-> r.err]
          /\ pollState' = IF r.err # NoError \/ Len(r.pids) = 0
                          THEN "waiting" ELSE "collecting"
    /\ UNCHANGED <<parseVars, worldVars, selector, smapsFiles, registry>>

\* The second half: the loop over the resolved PIDs.  The world may have
\* changed since the resolution.
PollCollect ==
    /\ pollState = "collecting"
    /\ LET cycle == CollectCycle(registry, call.pids)
       IN /\ registry' = cycle.registry
          /\ pollState' = IF cycle.panic THEN "crashed" ELSE "waiting"
    /\ UNCHANGED <<parseVars, worldVars, call, selector, smapsFiles>>

\* While the loop runs the world changes: the runtime stops or starts answering;
PollCriFlips ==
    /\ pollState = "waiting"
    /\ criDown' = ~criDown
    /\ UNCHANGED <<parseVars, podSandboxes, containers, lcFail, tasks, procReadable,
                   procEntries, call, pollVars>>

\* a process exits (its entry of procPath disappears);
PollProcessExits ==
    /\ pollState \in {"waiting", "collecting"}
    /\ \E pid \in {11, 20} :
        LET Alive(e) == e.name # PidName(pid)
        IN /\ Lookup(PidName(pid)).found
           /\ procEntries' = SelectSeq(procEntries, Alive)
    /\ UNCHANGED <<parseVars, podSandboxes, criDown, containers, lcFail, tasks,
                   procReadable, call, pollVars>>

\* the memory map of a process changes, or its report becomes unreadable.
PollSmapsChanges ==
    /\ pollState = "waiting"
    /\ \E pid \in {10, 20}, f \in FilePool :
        /\ smapsFiles[pid] # f
        /\ smapsFiles' = [smapsFiles EXCEPT ![pid] = f]
    /\ UNCHANGED <<parseVars, worldVars, call, selector, registry, pollState>>

PollNext ==
    PollTick \/ PollCollect \/ PollCriFlips \/ PollProcessExits \/ PollSmapsChanges

SpecPoll == PollInit /\ [][PollNext]_vars

-----------------------------------------------------------------------------
(* ParseSmaps as a process: the scanner delivers one line per step. *)

ParseInit ==
    /\ report = <<>>
    /\ aggregatedSmaps = <<>>
    /\ mapping = NilMapping
    /\ pstate = "scanning"
    /\ result = {}
    /\ WorldFixed
    /\ PollIdle
    /\ call = NoCall

\* scanner.Scan() delivers a line and the loop body runs on it.
Scan ==
    /\ pstate = "scanning"
    /\ Len(report) < MaxLines
    /\ \E line \in Lines :
        LET s == ScanLine([agg |-> aggregatedSmaps, mapping |-> mapping,
                           panic |-> FALSE], line)
        IN /\ report' = Append(report, line)
           /\ aggregatedSmaps' = s.agg
           /\ mapping' = s.mapping
           /\ pstate' = IF s.panic THEN "panic" ELSE "scanning"
    /\ UNCHANGED <<result, worldVars, call, pollVars>>

\* scanner.Scan() returns false at the end of the input: the map becomes the result.
Return ==
    /\ pstate = "scanning"
    /\ pstate' = "returned"
    /\ result' = MapToSlice(aggregatedSmaps)
    /\ UNCHANGED <<report, aggregatedSmaps, mapping, worldVars, call, pollVars>>

\* scanner.Scan() returns false because the reader failed: nil and the error.
ReturnErr ==
    /\ pstate = "scanning"
    /\ pstate' = "error"
    /\ result' = {}
    /\ UNCHANGED <<report, aggregatedSmaps, mapping, worldVars, call, pollVars>>

ParseNext == Scan \/ Return \/ ReturnErr

SpecParse == ParseInit /\ [][ParseNext]_vars

-----------------------------------------------------------------------------
(* The report grammar as the specification states it, used to say what a   *)
(* parse should produce.                                                   *)

\* A line of the header shape.
IsHeader(line) == headerRe(line).ok

\* The path value of a header line: the trailing text, or the anonymous marker
\* when nothing but white space follows the inode.
PathValue(line) ==
    LET t == TrimSpace(line.tail) IN IF t = <<>> THEN Anon ELSE t

\* A key-value line "<FieldName>: <decimal> kB": exactly this unit, a decimal
\* value that fits the field.
IsKeyValue(line) ==
    line.kind = "kv" /\ line.unit = KB /\ line.val.form = "dec"

\* A key-value shaped line that the grammar says is ignored.
IsIgnoredKv(line) == line.kind = "kv" /\ ~IsKeyValue(line)

NotIgnoredKv(line) == ~IsIgnoredKv(line)

\* The header line that line i of the report belongs to (0 when there is none).
OwnerOf(lines, i) ==
    LET hs == {j \in 1..(i - 1) : IsHeader(lines[j])}
    IN IF hs = {} THEN 0 ELSE CHOOSE j \in hs : \A k \in hs : k <= j

\* The bytes that line i adds to field f of the record of path p.
Contribution(lines, i, p, f) ==
    IF /\ IsKeyValue(lines[i])
       /\ KeyField(lines[i].key) = f
       /\ OwnerOf(lines, i) # 0
       /\ PathValue(lines[OwnerOf(lines, i)]) = p
    THEN lines[i].val.n * KiB
    ELSE 0

RECURSIVE SumTo(_, _, _, _)
SumTo(lines, n, p, f) ==
    IF n = 0 THEN 0 ELSE SumTo(lines, n - 1, p, f) + Contribution(lines, n, p, f)

HeaderPaths(lines) ==
    {PathValue(lines[i]) : i \in {j \in 1..Len(lines) : IsHeader(lines[j])}}

-----------------------------------------------------------------------------
(* Claims about ParseSmaps. *)

\* C1: for every report, ParseSmaps returns a list with exactly one record per
\* distinct path value of a header line, each byte field being the sum of
\* value x 1024 over the key-value lines of the entries with that path.
C1_OneRecordPerPathSummed ==
    /\ pstate # "panic"
    /\ pstate = "returned" =>
        /\ {r.Path : r \in result} = HeaderPaths(report)
        /\ Cardinality(result) = Cardinality(HeaderPaths(report))
        /\ \A r \in result : \A f \in ByteFields :
              r.bytes[f] = SumTo(report, Len(report), r.Path, f)

\* C2: a key-value line whose unit is not exactly kB, or whose value is not a
\* decimal number that fits, changes no field of any record: the map is what
\* the same report without those lines produces.
C2_IgnoredLinesChangeNothing ==
    pstate # "panic" =>
        aggregatedSmaps = ScanFrom(ScanStart, SelectSeq(report, NotIgnoredKv)).agg

\* C3: whatever the lines are, ParseSmaps terminates normally: it returns a
\* list, or the reader's error, and never panics.
C3_NeverPanics == pstate \in {"scanning", "returned", "error"}

\* C9: after a header line with nothing or only white space after the inode,
\* the current record is the one with path [anon].
C9_BlankPathIsAnon ==
    (/\ pstate # "panic"
     /\ report # <<>>
     /\ IsHeader(report[Len(report)])
     /\ TrimSpace(report[Len(report)].tail) = <<>>)
    => /\ mapping = Anon
       /\ Anon \in DOMAIN aggregatedSmaps
       /\ aggregatedSmaps[Anon].Path = Anon

\* What the four claims above have in common on reports that contain none of
\* the lines on which the parser misbehaves: aggregation by path is as stated.
CleanLine(line) ==
    /\ ~IsIgnoredKv(line)
    /\ (IsHeader(line) => HeaderPath(headerRe(line)) = PathValue(line))

CleanReport(lines) ==
    /\ \A i \in 1..Len(lines) : CleanLine(lines[i])
    /\ \A i \in 1..Len(lines) :
          (IsKeyValue(lines[i]) /\ KeyField(lines[i].key) # "") => OwnerOf(lines, i) # 0

AggregationOnCleanReports ==
    (CleanReport(report) /\ pstate = "returned") =>
        /\ {r.Path : r \in result} = HeaderPaths(report)
        /\ Cardinality(result) = Cardinality(HeaderPaths(report))
        /\ \A r \in result : \A f \in ByteFields :
              r.bytes[f] = SumTo(report, Len(report), r.Path, f)

-----------------------------------------------------------------------------
(* Claims about GetHostPIDs. *)

Range(seq) == {seq[i] : i \in DOMAIN seq}

\* The stages of the last call, recomputed from the world itself.
CallPodUIDs == MatchingPodUIDs(podSandboxes, call.namespace, call.pod)
CallContainerUIDs == MatchingContainerUIDs(CallPodUIDs, call.container)
CallAllPIDs == CollectPIDs(CallContainerUIDs, call.comm)

\* C4: the list GetHostPIDs returns never holds a process identifier twice.
C4_NoDuplicatePIDs ==
    call.done =>
        \A i, j \in DOMAIN call.pids : i # j => call.pids[i] # call.pids[j]

\* The init process of container c resolves to a PID namespace.
Resolves(c) ==
    /\ ~getInitPIDFromContainerd(c).err
    /\ ~getPIDNamespace(getInitPIDFromContainerd(c).pid).err

NamespaceOf(c) == getPIDNamespace(getInitPIDFromContainerd(c).pid).ns

\* What C5 requires of an entry for the scan of namespace ns.
Qualifies(e, ns, comm) ==
    /\ e.name.num
    /\ e.isDir
    /\ e.link.readable
    /\ e.link.wellformed
    /\ e.link.ino = ns
    /\ (comm # <<Wildcard>> => (e.comm.readable /\ TrimSpace(e.comm.data) = comm))

\* C5: in the scan for one container, an entry is in the result if and only if
\* it is a numeric directory whose namespace link is readable, well-formed and
\* of the inode of the container's init process and (unless the process name
\* is the wildcard) whose trimmed comm is the process name.
C5_ScanReturnsExactlyNamespaceMembers ==
    call.done =>
        \A c \in ContainerIds : Resolves(c) =>
            LET scan == findPIDsInPIDNamespace(NamespaceOf(c), call.comm)
                listed == ReadDir.entries
            IN /\ \A i \in DOMAIN listed :
                    (listed[i].name.num /\ listed[i].name.n \in Range(scan))
                        <=> Qualifies(listed[i], NamespaceOf(c), call.comm)
               /\ \A n \in Range(scan) :
                    \E i \in DOMAIN listed : listed[i].name = PidName(n)

\* C5's case: a scan that returns a process while an entry of another
\* namespace with the same comm, and an entry whose link cannot be read, are
\* left out.
C5_Witness ==
    /\ call.done
    /\ call.comm = <<"nginx">>
    /\ procReadable
    /\ \E c \in ContainerIds :
        /\ Resolves(c)
        /\ LET scan == findPIDsInPIDNamespace(NamespaceOf(c), call.comm)
           IN /\ scan # <<>>
              /\ \E i, j \in DOMAIN procEntries :
                    /\ procEntries[i].link.readable
                    /\ procEntries[i].link.wellformed
                    /\ procEntries[i].link.ino # NamespaceOf(c)
                    /\ procEntries[i].comm = Nginx
                    /\ procEntries[i].name.n \notin Range(scan)
                    /\ ~procEntries[j].link.readable
                    /\ procEntries[j].name.n \notin Range(scan)

\* The last call with one field replaced by the wildcard.
WithWildcard(field) ==
    GetHostPIDs(IF field = "namespace" THEN Wildcard ELSE call.namespace,
                IF field = "pod" THEN Wildcard ELSE call.pod,
                IF field = "container" THEN Wildcard ELSE call.container,
                IF field = "comm" THEN <<Wildcard>> ELSE call.comm)

SelectorFields == {"namespace", "pod", "container", "comm"}

\* C6: in the same world, replacing one selector field by the wildcard removes
\* no process identifier from the result and does not make the call fail.
C6_WildcardIsSuperset ==
    (call.done /\ call.err = NoError) =>
        \A field \in SelectorFields :
            /\ WithWildcard(field).err = NoError
            /\ Range(call.pids) \subseteq Range(WithWildcard(field).pids)

\* C6's case: a successful call with every field fixed, where each wildcard
\* is a call of its own and one of them returns strictly more.
C6_Witness ==
    /\ call.done
    /\ call.err = NoError
    /\ call.namespace # Wildcard
    /\ call.pod # Wildcard
    /\ call.container # Wildcard
    /\ call.comm # <<Wildcard>>
    /\ \E field \in SelectorFields :
          Range(WithWildcard(field).pids) \ Range(call.pids) # {}

\* The containers of the last call for which the init process does not resolve.
FailingContainers == {c \in Range(CallContainerUIDs) : ~Resolves(c)}

Without(seq, x) == LET Keep(y) == y # x IN SelectSeq(seq, Keep)

\* C7: when the task lookup or the namespace resolution fails for a matching
\* container, the call returns what it returns with that container left out.
C7_FailingContainerIsSkipped ==
    (call.done /\ call.err \in {NoError, "no PIDs found"}) =>
        \A c \in FailingContainers :
            call.pids = CollectPIDs(Without(CallContainerUIDs, c), call.comm)

\* C7's case: a failing container listed before a container that resolves,
\* and a call that returns processes.
C7_Witness ==
    /\ call.done
    /\ call.err = NoError
    /\ call.pids # <<>>
    /\ \E i, j \in DOMAIN CallContainerUIDs :
          /\ i < j
          /\ ~Resolves(CallContainerUIDs[i])
          /\ Resolves(CallContainerUIDs[j])

\* A stage of the last call has an empty result.
StageEmpty ==
    \/ Len(CallPodUIDs) = 0
    \/ Len(CallContainerUIDs) = 0
    \/ Len(CallAllPIDs) = 0

\* C8 as stated: GetHostPIDs returns an error exactly when a stage's result is
\* empty, and a nil error comes with a non-empty list.
C8_ErrorExactlyWhenStageEmpty ==
    call.done =>
        /\ (call.err # NoError) <=> StageEmpty
        /\ call.err = NoError => call.pids # <<>>

\* C8 as amended: GetHostPIDs returns an error exactly when ListPodSandbox
\* fails or a stage's result is empty - the error of the first stage that is -
\* and a nil error comes with a non-empty list.
C8_ErrorWhenListFailsOrStageEmpty ==
    call.done =>
        /\ (call.err # NoError) <=> (criDown \/ StageEmpty)
        /\ (call.err = "ListPodSandbox failed") <=> criDown
        /\ (call.err = "pod not found") <=> (~criDown /\ Len(CallPodUIDs) = 0)
        /\ (call.err = "no running containers") <=>
              (~criDown /\ Len(CallPodUIDs) # 0 /\ Len(CallContainerUIDs) = 0)
        /\ (call.err = "no PIDs found") <=>
              (~criDown /\ Len(CallPodUIDs) # 0 /\ Len(CallContainerUIDs) # 0
                 /\ Len(CallAllPIDs) = 0)
        /\ call.err = NoError => call.pids # <<>>
        /\ call.err # NoError => call.pids = <<>>

\* C8's case: the listing fails although every stage would have a result.
C8_Witness ==
    /\ call.done
    /\ criDown
    /\ ~StageEmpty
    /\ call.err = "ListPodSandbox failed"

-----------------------------------------------------------------------------
(* Claims about the poll loop. *)

\* C10: the poll loop never stops: after any cycle - a cycle-level error, no
\* processes, or a report that could not be read or parsed - the process has
\* not crashed and waits for the next tick, whose resolution is that of the
\* world at that tick.
C10_PollNeverStops == pollState \in {"waiting", "collecting"}

\* ---------------------------------------------------------------------------
\* The collection cycle, stated from the files of the processes.

\* What collectAndSetMetrics reads for a process: its report, parsed.
ReportOf(pid) == ParseSmaps(Open(pid).f.lines, Open(pid).f.readErr)

\* The process cannot be collected: its comm or its smaps file cannot be
\* read, or the report does not parse.
Failed(pid) ==
    \/ findComm(pid).err
    \/ Open(pid).err
    \/ ReportOf(pid).outcome # "returned"

Collectable(pid) == ~Failed(pid)

\* The parser does not return at all for the report of the process.
Panics(pid) ==
    /\ ~findComm(pid).err
    /\ ~Open(pid).err
    /\ ReportOf(pid).outcome = "panic"

\* The observations of a process: one per (comm, path) of its records.
Observations(pid) ==
    IF Failed(pid) THEN <<>>
    ELSE LET list == ReportOf(pid).list
             comm == findComm(pid).comm
         IN [k \in {<<comm, m.Path>> : m \in list} |->
                (CHOOSE m \in list : m.Path = k[2]).bytes]

\* The registry after the observations of the processes, in their order.
RECURSIVE EmitAll(_, _)
EmitAll(reg, pids) ==
    IF pids = <<>> THEN reg
    ELSE EmitAll(Observations(Head(pids)) @@ reg, Tail(pids))

\* The processes the loop got to before the parser panicked.
RECURSIVE UpToPanic(_)
UpToPanic(pids) ==
    IF pids = <<>> THEN <<>>
    ELSE IF Panics(Head(pids)) THEN <<>>
    ELSE <<Head(pids)>> \o UpToPanic(Tail(pids))

\* The step is the loop over the resolved PIDs.
CycleStep == pollState = "collecting" /\ pollState' # "collecting"

\* C11: within one collection cycle the processes that cannot be collected emit
\* nothing, and every other resolved process is collected and emitted: the
\* registry after the cycle is the registry before it with the observations
\* of the collectable processes, and the loop goes on to the next tick.
C11_FailureIsIsolated ==
    [][CycleStep =>
          /\ pollState' = "waiting"
          /\ registry' = EmitAll(registry, SelectSeq(call.pids, Collectable))]_vars

\* The same for the failures that collectAndSetMetrics returns as errors (the
\* comm, the open, the read error): these are isolated.
ReturnedErrorsAreIsolated ==
    [][(CycleStep /\ \A i \in 1..Len(call.pids) : ~Panics(call.pids[i])) =>
          /\ pollState' = "waiting"
          /\ registry' = EmitAll(registry, SelectSeq(call.pids, Collectable))]_vars

-----------------------------------------------------------------------------
(* The containers GetHostPIDs scans. *)

\* The queries of the control plane the last call made succeeded:
\* ListPodSandbox, and ListContainers for every matching pod.
ControlPlaneSucceeds ==
    /\ ~ListPodSandbox.err
    /\ \A uid \in Range(CallPodUIDs) :
          ~getContainersForPod(uid, call.container).err

\* The containers of the world that are running, carry the pod UID of a
\* sandbox matching the namespace and pod fields and, unless the container
\* field is the wildcard, carry the container name.
RunningMatchingContainers ==
    {c.Id : c \in
        {c \in Range(containers) :
            /\ c.State = "CONTAINER_RUNNING"
            /\ \E sb \in Range(podSandboxes) :
                  /\ sb.uid = c.podUID
                  /\ (call.namespace = Wildcard \/ sb.namespace = call.namespace)
                  /\ (call.pod = Wildcard \/ sb.name = call.pod)
            /\ (call.container = Wildcard \/ c.name = call.container)}}

CallScanned == ScannedContainers(CallContainerUIDs)

\* C12 as stated: when the control-plane queries succeed, the containers whose
\* PID namespaces GetHostPIDs scans are exactly the running containers of the
\* matching pods that carry the container name (or any, for the wildcard).
C12_ScansExactlyRunningMatching ==
    (call.done /\ ControlPlaneSucceeds) =>
        CallScanned = RunningMatchingContainers

\* C12: when the control-plane queries succeed, the containers whose PID
\* namespaces GetHostPIDs scans are exactly the running containers of the
\* matching pods that carry the container name (or any, for the wildcard) and
\* whose init process the runtime-task lookup and the namespace resolution
\* resolve; a container that is not running is never scanned, and every
\* returned process is in the PID namespace of a scanned container.
C12_ScansResolvedRunningMatching ==
    (call.done /\ ControlPlaneSucceeds) =>
        /\ CallScanned = {c \in RunningMatchingContainers : Resolves(c)}
        /\ \A c \in Range(containers) :
              c.State # "CONTAINER_RUNNING" => c.Id \notin CallScanned
        /\ \A i \in DOMAIN call.pids :
              \E c \in CallScanned :
                 Readlink(PidName(call.pids[i])).link.ino = NamespaceOf(c)

\* C12's case: a wildcard pod field and a container name, two matching pods
\* that each have a running container of that name, both scanned and both
\* contributing, next to a container of a matching pod that is not running.
C12_Witness ==
    /\ call.done
    /\ ControlPlaneSucceeds
    /\ call.err = NoError
    /\ call.pod = Wildcard
    /\ call.container = "web"
    /\ {"c1", "c3"} \subseteq CallScanned
    /\ {10, 30} \subseteq Range(call.pids)
    /\ \E c \in Range(containers) :
          c.Id = "c2" /\ c.State = "CONTAINER_EXITED" /\ c.podUID \in Range(CallPodUIDs)

-----------------------------------------------------------------------------
(* The registry over the cycles. *)

\* The processes a step emits for, in their order: those of the cycle when
\* the step is the loop over the PIDs, none otherwise.
StepPids == IF CycleStep THEN UpToPanic(call.pids) ELSE <<>>

LastOf(S) == CHOOSE i \in S : \A j \in S : j <= i

\* C13: in every step, the registry afterwards holds for each (comm, path)
\* pair the fields of the record emitted last for it in the step (the
\* later-processed process overwrites the earlier, nothing is summed), a pair
\* no process of the step emits keeps the value it had, and no pair is removed.
C13_LastEmissionWins ==
    [][LET pids == StepPids
           obs == [i \in 1..Len(pids) |-> Observations(pids[i])]
           Emitters(k) == {i \in 1..Len(pids) : k \in DOMAIN obs[i]}
       IN /\ DOMAIN registry \subseteq DOMAIN registry'
          /\ \A i \in 1..Len(pids) : DOMAIN obs[i] \subseteq DOMAIN registry'
          /\ \A k \in DOMAIN registry' :
                IF Emitters(k) # {}
                THEN registry'[k] = obs[LastOf(Emitters(k))][k]
                ELSE k \in DOMAIN registry /\ registry'[k] = registry[k]]_vars

\* C13's case: after a cycle over the processes 10 and 20, which share comm
\* and path and report 1 kB and 2 kB, the pair holds the 2 kB of the later
\* one, and the pair of process 11, which exited before the cycle, still
\* holds the value of an earlier cycle.
C13_Witness ==
    /\ pollState = "waiting"
    /\ call.pids = <<10, 20>>
    /\ smapsFiles[10] = GoodFile(1)
    /\ smapsFiles[20] = GoodFile(2)
    /\ <<<<"nginx">>, <<"/a">>>> \in DOMAIN registry
    /\ registry[<<<<"nginx">>, <<"/a">>>>]["RssBytes"] = 2 * KiB
    /\ ~Lookup(PidName(11)).found
    /\ <<<<"sh">>, <<"/a">>>> \in DOMAIN registry
    /\ registry[<<<<"sh">>, <<"/a">>>>]["RssBytes"] = KiB

-----------------------------------------------------------------------------
(* The record a key-value line is added to. *)

\* Line i is a key-value line the loop recognizes: it matches kvRe and its key
\* is a case of the switch.
Recognized(line) == kvRe(line).ok /\ KeyField(kvRe(line).m1) # ""

\* The path of the record the header line at position j selects.
SelectedBy(lines, j) == HeaderPath(headerRe(lines[j]))

\* The bytes the recognized line i adds to field f of the record of path p
\* when it is added to the record of the most recent matched header only.
AddedTo(lines, i, p, f) ==
    IF /\ Recognized(lines[i])
       /\ KeyField(kvRe(lines[i]).m1) = f
       /\ OwnerOf(lines, i) # 0
       /\ SelectedBy(lines, OwnerOf(lines, i)) = p
    THEN ValBytes(ParseInt(kvRe(lines[i]).m2))
    ELSE 0

RECURSIVE AddedUpTo(_, _, _, _)
AddedUpTo(lines, n, p, f) ==
    IF n = 0 THEN 0 ELSE AddedUpTo(lines, n - 1, p, f) + AddedTo(lines, n, p, f)

MatchedHeaders(lines) == {j \in 1..Len(lines) : IsHeader(lines[j])}

\* C14: once a header line has matched, every recognized key-value line is
\* added to the record selected by the most recent line that matched the
\* header shape and to no other record: the records are those of the matched
\* headers, and each field is the sum of the lines owned by the headers of its
\* path; a header-like line that does not match selects nothing.
C14_AddedToMostRecentMatchedHeader ==
    MatchedHeaders(report) # {} =>
        /\ pstate # "panic"
        /\ DOMAIN aggregatedSmaps =
              {SelectedBy(report, j) : j \in MatchedHeaders(report)}
        /\ mapping = SelectedBy(report, OwnerOf(report, Len(report) + 1))
        /\ \A p \in DOMAIN aggregatedSmaps : \A f \in ByteFields :
              aggregatedSmaps[p].bytes[f] = AddedUpTo(report, Len(report), p, f)

\* C14's case: a matched header of /a, a header-like line of /b whose
\* permissions do not match the shape, and then a recognized key-value line,
\* which is in the record of /a; there is no record of /b.
C14_Witness ==
    /\ report = <<Hdr(Addr1, RWP, <<SP, "/a">>), Hdr(Addr1, BadPerms, <<SP, "/b">>),
                  Kv("Rss", Dec(1), KB)>>
    /\ DOMAIN aggregatedSmaps = {<<"/a">>}
    /\ aggregatedSmaps[<<"/a">>].bytes["RssBytes"] = KiB

====
